---- MODULE Spec2Model ----
(***************************************************************************)
(* Model of the rate graph and the best-rate search of src/src/main.rs.    *)
(*                                                                         *)
(* Vertex(char) is modelled by its rank in the char order: 1 is 'A', 2 is  *)
(* 'B', ...  An f32 rate is modelled by the exact rational it denotes, a   *)
(* record [num, den] in lowest terms with den > 0; infinities, NaN and     *)
(* rounding are outside the model.                                         *)
(*                                                                         *)
(* pc is the position of the caller: "idle" (no call made or add_rate      *)
(* returned), "loop" (inside the while loop of find_best_rate), "returned" *)
(* (find_best_rate returned result), "panicked" (the assertion of add_rate *)
(* failed), "aborted" (the debug assertion of find_best_rate failed).      *)
(* arg holds the arguments of the last add_rate call, ncalls counts the    *)
(* add_rate calls, replaced is what the insert of the forward rate of the  *)
(* call just made returned, order is the iteration order of each neighbour *)
(* map the current search has iterated.  src, dst and result are the       *)
(* arguments and the return value of the last search, until the next call. *)
(***************************************************************************)
EXTENDS Integers, Sequences, FiniteSets, TLC

VARIABLES vertices, edges, pc, src, dst, visited, queue, best_rate, pushed,
          order, result, arg, ncalls, replaced

vars == <<vertices, edges, pc, src, dst, visited, queue, best_rate, pushed,
          order, result, arg, ncalls, replaced>>

graphVars == <<vertices, edges>>
searchVars == <<src, dst, visited, queue, best_rate, pushed, order, result>>

(***************************************************************************)
(* Bounds.                                                                 *)
(***************************************************************************)
NumVertices == 3
MaxCalls == 3
NumSearchVertices == 6

Vertex == 1..NumVertices
SearchVertex == 1..NumSearchVertices

(***************************************************************************)
(* Rates: exact rationals.                                                 *)
(***************************************************************************)
Abs(i) == IF i < 0 THEN -i ELSE i

RECURSIVE Gcd(_, _)
Gcd(a, b) == IF b = 0 THEN a ELSE Gcd(b, a % b)

Rat(n, d) ==
    LET g == Gcd(Abs(n), Abs(d))
        s == IF d < 0 THEN -1 ELSE 1
    IN  [num |-> (s * n) \div g, den |-> (s * d) \div g]

Zero == [num |-> 0, den |-> 1]
One == [num |-> 1, den |-> 1]

\* rate * new_rate
Mul(a, b) == Rat(a.num * b.num, a.den * b.den)
\* 1.0 / rate
Recip(a) == Rat(a.den, a.num)
\* a >= b, a > b
Ge(a, b) == a.num * b.den >= b.num * a.den
Gt(a, b) == a.num * b.den > b.num * a.den

\* The rates the callers of the model pass to add_rate.
Rates == {Rat(2, 1), Rat(-1, 3)}
RateInputs == Rates \cup {Zero}

(***************************************************************************)
(* Maps (HashMap) and options.                                             *)
(***************************************************************************)
EmptyMap == [x \in {} |-> Zero]
MapInsert(m, k, v) == [x \in DOMAIN m \cup {k} |-> IF x = k THEN v ELSE m[x]]
OrInsertEmpty(m, k) == IF k \in DOMAIN m THEN m ELSE MapInsert(m, k, EmptyMap)

None == << >>
Some(x) == <<x>>

(***************************************************************************)
(* Edge::from([char; 2]): the two endpoints, sorted.                       *)
(***************************************************************************)
EdgeFrom(arr) == IF arr[1] <= arr[2] THEN <<arr[1], arr[2]>> ELSE <<arr[2], arr[1]>>

(***************************************************************************)
(* Graph::add_rate, after the assertion and the equal-endpoints return.    *)
(***************************************************************************)
\* InsertVertices without the second insert.
InsertVerticesFirst(vs, edge) == vs \cup {edge[1]}

InsertVertices(vs, edge) == vs \cup {edge[1], edge[2]}

\* InsertRates with the rate, not its reciprocal, stored for edge.1 -> edge.0.
InsertRatesSameRate(es, edge, rate) ==
    LET e1 == OrInsertEmpty(es, edge[1])
        e2 == MapInsert(e1, edge[1], MapInsert(e1[edge[1]], edge[2], rate))
        e3 == OrInsertEmpty(e2, edge[2])
    IN  MapInsert(e3, edge[2], MapInsert(e3[edge[2]], edge[1], rate))

\* InsertRates with entry(..).or_insert(..) in place of insert: an existing
\* rate is kept.
InsertRatesKeepFirst(es, edge, rate) ==
    LET e1 == OrInsertEmpty(es, edge[1])
        e2 == IF edge[2] \in DOMAIN e1[edge[1]] THEN e1
              ELSE MapInsert(e1, edge[1], MapInsert(e1[edge[1]], edge[2], rate))
        e3 == OrInsertEmpty(e2, edge[2])
    IN  IF edge[1] \in DOMAIN e3[edge[2]] THEN e3
        ELSE MapInsert(e3, edge[2], MapInsert(e3[edge[2]], edge[1], Recip(rate)))

InsertRates(es, edge, rate) ==
    LET e1 == OrInsertEmpty(es, edge[1])
        e2 == MapInsert(e1, edge[1], MapInsert(e1[edge[1]], edge[2], rate))
        e3 == OrInsertEmpty(e2, edge[2])
    IN  MapInsert(e3, edge[2], MapInsert(e3[edge[2]], edge[1], Recip(rate)))

\* The assertion extended to the endpoints: assert!(rate != 0.0 && edge.0 != edge.1)
AddRateAssertionDistinct(edge, rate) == rate # Zero /\ edge[1] # edge[2]

\* The assertion placed after the equal-endpoints return.
AddRateAssertionAfterReturn(edge, rate) == edge[1] = edge[2] \/ rate # Zero

\* assert!(rate != 0.0)
AddRateAssertion(edge, rate) == rate # Zero

\* What entry.insert(edge.1, rate) returns: the rate it replaces, if any.
Replaced(es, edge) ==
    IF edge[1] \in DOMAIN es /\ edge[2] \in DOMAIN es[edge[1]]
    THEN Some(es[edge[1]][edge[2]])
    ELSE None

\* AddRateTo without the return on equal endpoints.
AddRateToNoReturn(g, arr, rate) ==
    [vertices |-> InsertVertices(g.vertices, EdgeFrom(arr)),
     edges |-> InsertRates(g.edges, EdgeFrom(arr), rate)]

\* The body of add_rate once the assertion has passed, as a function of
\* the graph [vertices, edges].
AddRateTo(g, arr, rate) ==
    LET edge == EdgeFrom(arr)
    IN  IF edge[1] = edge[2]
        THEN g
        ELSE [vertices |-> InsertVertices(g.vertices, edge),
              edges |-> InsertRates(g.edges, edge, rate)]

(***************************************************************************)
(* Graph::find_best_rate helpers.                                          *)
(***************************************************************************)
PushLimit == 100

Contains(path, v) == \E i \in 1..Len(path) : path[i] = v

\* Every order in which a HashMap with the key set S can be iterated.
Perms(S) ==
    {p \in [1..Cardinality(S) -> S] : \A i, j \in 1..Cardinality(S) : p[i] = p[j] => i = j}

\* self.edges.get(new_vertex): the neighbour map, or nothing to iterate.
Neighbours(es, v) == IF v \in DOMAIN es THEN es[v] ELSE EmptyMap

\* Pushes without the path.contains test.
PushesRevisiting(es, e, p) ==
    [i \in 1..Len(p) |->
        [vertex |-> p[i],
         rate |-> Mul(es[e.vertex][p[i]], e.rate),
         path |-> Append(e.path, p[i])]]

\* Pushes with the rate of the last edge alone: rate in place of rate * new_rate.
PushesEdgeRate(es, e, p) ==
    LET kept == SelectSeq(p, LAMBDA u : ~Contains(e.path, u))
    IN  [i \in 1..Len(kept) |->
            [vertex |-> kept[i],
             rate |-> es[e.vertex][kept[i]],
             path |-> Append(e.path, kept[i])]]

\* The entries the for loop pushes for the dequeued entry e, iterating the
\* neighbour map in the order p.
Pushes(es, e, p) ==
    LET kept == SelectSeq(p, LAMBDA u : ~Contains(e.path, u))
    IN  [i \in 1..Len(kept) |->
            [vertex |-> kept[i],
             rate |-> Mul(es[e.vertex][kept[i]], e.rate),
             path |-> Append(e.path, kept[i])]]

\* Dominated with <= in place of >=: the better entry is the one dropped.
DominatedReversed(vis, e) == e.vertex \in DOMAIN vis /\ Ge(e.rate, vis[e.vertex])

\* Dominated with > in place of >=: an entry with a rate equal to the
\* recorded one is not dropped.
DominatedStrict(vis, e) == e.vertex \in DOMAIN vis /\ Gt(vis[e.vertex], e.rate)

\* The visited vertex check: TRUE when the dequeued entry is dropped.
Dominated(vis, e) == e.vertex \in DOMAIN vis /\ Ge(vis[e.vertex], e.rate)

\* Candidate that keeps the first candidate: best_rate.or(Some(new_rate)).
CandidateKeepFirst(best, new_rate) ==
    IF best = None THEN Some(new_rate) ELSE best

\* best_rate.map(|best_rate| ...).or(Some(new_rate))
Candidate(best, new_rate) ==
    IF best = None THEN Some(new_rate)
    ELSE IF Gt(new_rate, best[1]) THEN Some(new_rate) ELSE best

Init ==
    /\ vertices = {}
    /\ edges = EmptyMap
    /\ pc = "idle"
    /\ src = 0
    /\ dst = 0
    /\ visited = EmptyMap
    /\ queue = << >>
    /\ best_rate = None
    /\ pushed = 0
    /\ order = EmptyMap
    /\ result = None
    /\ arg = [arr |-> <<0, 0>>, rate |-> Zero]
    /\ ncalls = 0
    /\ replaced = None

\* graph.add_rate(arr.into(), rate)
AddRate(arr, rate) ==
    /\ pc \in {"idle", "returned"}
    /\ ncalls < MaxCalls
    /\ arg' = [arr |-> arr, rate |-> rate]
    /\ ncalls' = ncalls + 1
    /\ IF ~AddRateAssertion(EdgeFrom(arr), rate)
       THEN /\ pc' = "panicked"
            /\ replaced' = None
            /\ UNCHANGED graphVars
       ELSE LET g == AddRateTo([vertices |-> vertices, edges |-> edges], arr, rate)
                edge == EdgeFrom(arr)
            IN  /\ pc' = "idle"
                /\ replaced' = IF edge[1] = edge[2] THEN None ELSE Replaced(edges, edge)
                /\ vertices' = g.vertices
                /\ edges' = g.edges
    /\ src' = 0
    /\ dst' = 0
    /\ result' = None
    /\ UNCHANGED <<visited, queue, best_rate, pushed, order>>

\* FindBestRate with best_rate initialised to Some(0.0) instead of None.
FindBestRateZeroSeed(s, d) ==
    /\ pc \in {"idle", "returned"}
    /\ pc' = "loop"
    /\ src' = s
    /\ dst' = d
    /\ visited' = EmptyMap
    /\ queue' = <<[vertex |-> s, rate |-> One, path |-> <<s>>]>>
    /\ best_rate' = Some(Zero)
    /\ pushed' = 0
    /\ order' = EmptyMap
    /\ result' = None
    /\ replaced' = None
    /\ UNCHANGED <<graphVars, arg, ncalls>>

\* graph.find_best_rate(&s, &d), up to the first evaluation of the loop head.
FindBestRate(s, d) ==
    /\ pc \in {"idle", "returned"}
    /\ pc' = "loop"
    /\ src' = s
    /\ dst' = d
    /\ visited' = EmptyMap
    /\ queue' = <<[vertex |-> s, rate |-> One, path |-> <<s>>]>>
    /\ best_rate' = None
    /\ pushed' = 0
    /\ order' = EmptyMap
    /\ result' = None
    /\ replaced' = None
    /\ UNCHANGED <<graphVars, arg, ncalls>>

\* Return that also leaves the loop as soon as a candidate has been found.
ReturnEarly ==
    /\ pc = "loop"
    /\ (queue = << >> \/ best_rate # None)
    /\ pc' = "returned"
    /\ result' = best_rate
    /\ visited' = EmptyMap
    /\ best_rate' = None
    /\ pushed' = 0
    /\ order' = EmptyMap
    /\ queue' = << >>
    /\ UNCHANGED <<graphVars, src, dst, arg, ncalls, replaced>>

\* queue.pop_front() gives None: the loop ends, best_rate is returned and
\* the locals of the call are dropped.
Return ==
    /\ pc = "loop"
    /\ queue = << >>
    /\ pc' = "returned"
    /\ result' = best_rate
    /\ visited' = EmptyMap
    /\ best_rate' = None
    /\ pushed' = 0
    /\ order' = EmptyMap
    /\ UNCHANGED <<graphVars, src, dst, queue, arg, ncalls, replaced>>

\* One iteration of the while loop on the entry at the front of the queue.
Iterate ==
    /\ pc = "loop"
    /\ queue # << >>
    /\ LET e == Head(queue)
           rest == Tail(queue)
       IN  IF pushed >= PushLimit
           THEN /\ pc' = "aborted"
                /\ queue' = rest
                /\ UNCHANGED <<visited, best_rate, pushed, order>>
           ELSE IF Dominated(visited, e)
           THEN /\ queue' = rest
                /\ UNCHANGED <<pc, visited, best_rate, pushed, order>>
           ELSE IF e.vertex = dst
           THEN /\ visited' = MapInsert(visited, e.vertex, e.rate)
                /\ best_rate' = Candidate(best_rate, e.rate)
                /\ queue' = rest
                /\ UNCHANGED <<pc, pushed, order>>
           ELSE \E p \in (IF e.vertex \in DOMAIN order
                          THEN {order[e.vertex]}
                          ELSE Perms(DOMAIN Neighbours(edges, e.vertex))) :
                    /\ visited' = MapInsert(visited, e.vertex, e.rate)
                    /\ order' = MapInsert(order, e.vertex, p)
                    /\ queue' = rest \o Pushes(edges, e, p)
                    /\ pushed' = pushed + Len(Pushes(edges, e, p))
                    /\ UNCHANGED <<pc, best_rate>>
    /\ UNCHANGED <<graphVars, src, dst, result, arg, ncalls, replaced>>

Search ==
    \/ \E s \in Vertex, d \in Vertex : FindBestRate(s, d)
    \/ Iterate
    \/ Return

Next ==
    \/ \E a \in Vertex, b \in Vertex, r \in RateInputs : AddRate(<<a, b>>, r)
    \/ Search

Spec == Init /\ [][Next]_vars

(***************************************************************************)
(* Searches on the graphs of a market with one arbitrage cycle.            *)
(*                                                                         *)
(* Feed is a list of add_rate calls in the style of main(): B -> C -> E -> *)
(* B multiplies to 2.  A search starts on the graph built from any subset  *)
(* of the calls of Feed, between any two of the vertices A..F.             *)
(***************************************************************************)
Feed ==
    << [arr |-> <<1, 2>>, rate |-> Rat(1, 1)],
       [arr |-> <<2, 3>>, rate |-> Rat(1, 1)],
       [arr |-> <<1, 6>>, rate |-> Rat(1, 1)],
       [arr |-> <<3, 6>>, rate |-> Rat(1, 1)],
       [arr |-> <<3, 5>>, rate |-> Rat(2, 1)],
       [arr |-> <<2, 5>>, rate |-> Rat(1, 1)],
       [arr |-> <<2, 4>>, rate |-> Rat(1, 1)] >>

\* The graph after the calls of Feed whose index is in S, in feed order.
RECURSIVE Build(_, _, _)
Build(g, i, S) ==
    IF i > Len(Feed) THEN g
    ELSE Build(IF i \in S THEN AddRateTo(g, Feed[i].arr, Feed[i].rate) ELSE g, i + 1, S)

InitSearch ==
    /\ \E S \in SUBSET (1..Len(Feed)) :
          LET g == Build([vertices |-> {}, edges |-> EmptyMap], 1, S)
          IN  /\ vertices = g.vertices
              /\ edges = g.edges
              /\ ncalls = Cardinality(S)
    /\ pc = "idle"
    /\ src = 0
    /\ dst = 0
    /\ visited = EmptyMap
    /\ queue = << >>
    /\ best_rate = None
    /\ pushed = 0
    /\ order = EmptyMap
    /\ result = None
    /\ arg = [arr |-> <<0, 0>>, rate |-> Zero]
    /\ replaced = None

NextSearch ==
    \/ \E s \in SearchVertex, d \in SearchVertex : FindBestRate(s, d)
    \/ Iterate
    \/ Return

SpecSearch == InitSearch /\ [][NextSearch]_vars

\* find_best_rate runs synchronously: a started search keeps taking the
\* steps of its loop.
FairSearch == SpecSearch /\ WF_vars(Iterate) /\ WF_vars(Return)

(***************************************************************************)
(* Reference definitions for the properties.                               *)
(***************************************************************************)
Range(f) == {f[i] : i \in DOMAIN f}

\* The simple paths of the graph that extend p and end at d.
RECURSIVE PathsFrom(_, _, _)
PathsFrom(es, p, d) ==
    IF p[Len(p)] = d THEN {p}
    ELSE UNION {PathsFrom(es, Append(p, u), d) :
                  u \in DOMAIN Neighbours(es, p[Len(p)]) \ Range(p)}

SimplePaths(es, s, d) == PathsFrom(es, <<s>>, d)

\* The product of the edge rates along p.
RECURSIVE PathRate(_, _)
PathRate(es, p) ==
    IF Len(p) <= 1 THEN One
    ELSE Mul(PathRate(es, SubSeq(p, 1, Len(p) - 1)), es[p[Len(p) - 1]][p[Len(p)]])

MaxRate(S) == CHOOSE r \in S : \A q \in S : Ge(r, q)

BestSimple(es, s, d) ==
    LET rs == {PathRate(es, p) : p \in SimplePaths(es, s, d)}
    IN  IF rs = {} THEN None ELSE Some(MaxRate(rs))

PositiveRates(es) == \A u \in DOMAIN es : \A v \in DOMAIN es[u] : Gt(es[u][v], Zero)

\* The keys of S in ascending order.
RECURSIVE Ascending(_)
Ascending(S) ==
    IF S = {} THEN << >>
    ELSE LET m == CHOOSE x \in S : \A y \in S : x <= y
         IN  <<m>> \o Ascending(S \ {m})

\* The search with every neighbour map iterated in ascending key order.
RECURSIVE AscendingLoop(_, _, _, _, _)
AscendingLoop(es, d, q, vis, best) ==
    IF q = << >> THEN best
    ELSE LET e == Head(q)
         IN  IF Dominated(vis, e)
             THEN AscendingLoop(es, d, Tail(q), vis, best)
             ELSE IF e.vertex = d
             THEN AscendingLoop(es, d, Tail(q), MapInsert(vis, e.vertex, e.rate),
                                Candidate(best, e.rate))
             ELSE AscendingLoop(es, d,
                                Tail(q) \o Pushes(es, e, Ascending(DOMAIN Neighbours(es, e.vertex))),
                                MapInsert(vis, e.vertex, e.rate), best)

AscendingSearch(es, s, d) ==
    AscendingLoop(es, d, <<[vertex |-> s, rate |-> One, path |-> <<s>>]>>, EmptyMap, None)

(***************************************************************************)
(* C1: for every graph with positive rates and every src # dst, the search *)
(* returns the maximum compounded rate over all simple paths from src to   *)
(* dst (absent when there is none).                                        *)
(***************************************************************************)
C1_BestOverAllSimplePaths ==
    (pc = "returned" /\ src # dst /\ PositiveRates(edges))
        => result = BestSimple(edges, src, dst)

(***************************************************************************)
(* C2: a search from a vertex to itself, on a graph with no self-loop on   *)
(* that vertex, returns absent.                                            *)
(***************************************************************************)
C2_SelfPairAbsent ==
    (pc = "returned" /\ src = dst /\ src \notin DOMAIN Neighbours(edges, src))
        => result = None

(***************************************************************************)
(* C3: on the graph built by the single call add_rate([s, d].into(), r)    *)
(* with s # d given in either order and r # 0, the search from s to d      *)
(* returns r and the search from d to s returns 1/r.                       *)
(***************************************************************************)
C3_SingleCallBothDirections ==
    (pc = "returned" /\ ncalls = 1 /\ arg.rate # Zero /\ arg.arr[1] # arg.arr[2])
        => /\ (src = arg.arr[1] /\ dst = arg.arr[2]) => result = Some(arg.rate)
           /\ (src = arg.arr[2] /\ dst = arg.arr[1]) => result = Some(Recip(arg.rate))

\* The rate stored for u -> v, if any.
RateOf(es, u, v) ==
    IF u \in DOMAIN es /\ v \in DOMAIN es[u] THEN Some(es[u][v]) ELSE None

(***************************************************************************)
(* C4: after any sequence of add_rate calls the graph is bidirectionally   *)
(* consistent: whenever u -> v is present with rate r, v -> u is present   *)
(* with rate 1/r (for all u, v, hence in both directions).                 *)
(***************************************************************************)
C4_BidirectionallyConsistent ==
    \A u \in DOMAIN edges : \A v \in DOMAIN edges[u] :
        RateOf(edges, v, u) = Some(Recip(edges[u][v]))

\* An accepted call with the endpoints given in descending order, made on
\* a graph that already had a rate for the pair.
C4_Witness ==
    /\ pc = "idle"
    /\ ncalls >= 2
    /\ arg.rate # Zero
    /\ arg.arr[1] > arg.arr[2]
    /\ replaced # None
    /\ RateOf(edges, arg.arr[2], arg.arr[1]) = Some(arg.rate)

\* The step is an add_rate call with equal endpoints and a non-zero rate.
SelfLoopCall == ncalls' = ncalls + 1 /\ arg'.arr[1] = arg'.arr[2] /\ arg'.rate # Zero

NoZeroStored == \A u \in DOMAIN edges : \A v \in DOMAIN edges[u] : edges[u][v] # Zero

(***************************************************************************)
(* C6: add_rate with rate 0 fails, whatever the endpoints, before any      *)
(* change to the vertex set or the edge map; no zero rate is ever stored.  *)
(***************************************************************************)
C6_ZeroRateFails ==
    [][/\ (ncalls' = ncalls + 1 /\ arg'.rate = Zero)
            => (pc' = "panicked" /\ UNCHANGED graphVars)
       /\ NoZeroStored']_vars

\* A zero-rate call with equal endpoints has failed on a non-empty graph.
C6_Witness ==
    pc = "panicked" /\ arg.rate = Zero /\ arg.arr[1] = arg.arr[2] /\ vertices # {}

(***************************************************************************)
(* C7: when no path connects src to dst, src # dst (src or dst possibly    *)
(* not in the graph), the search does not fail and returns absent.         *)
(***************************************************************************)
C7_DisconnectedAbsent ==
    (pc \in {"loop", "returned", "aborted"} /\ src # dst
       /\ SimplePaths(edges, src, dst) = {})
        => (pc # "aborted" /\ (pc = "returned" => result = None))

\* A search between two vertices of the graph that no path connects has
\* returned.
C7_Witness ==
    /\ pc = "returned"
    /\ src # dst
    /\ src \in vertices
    /\ dst \in vertices
    /\ SimplePaths(edges, src, dst) = {}
    /\ result = None

(***************************************************************************)
(* C8: an accepted add_rate call leaves its rate in effect from edge.0 to  *)
(* edge.1 and the reciprocal from edge.1 to edge.0, whatever was stored    *)
(* for the pair before, and changes the rate of no other pair.             *)
(***************************************************************************)
C8_LastWriteWins ==
    [][(ncalls' = ncalls + 1 /\ arg'.rate # Zero /\ arg'.arr[1] # arg'.arr[2])
        => LET e == EdgeFrom(arg'.arr)
           IN  /\ RateOf(edges', e[1], e[2]) = Some(arg'.rate)
               /\ RateOf(edges', e[2], e[1]) = Some(Recip(arg'.rate))
               /\ \A u \in Vertex, v \in Vertex :
                     {u, v} # {e[1], e[2]}
                        => RateOf(edges', u, v) = RateOf(edges, u, v)]_vars

\* The third call replaced a different rate of its pair, and another pair
\* has rates too.
C8_Witness ==
    /\ pc = "idle"
    /\ ncalls = 3
    /\ replaced # None
    /\ replaced # Some(arg.rate)
    /\ Cardinality(vertices) = 3
    /\ RateOf(edges, EdgeFrom(arg.arr)[1], EdgeFrom(arg.arr)[2]) = Some(arg.rate)

C10_OrderIndependent ==
    pc = "returned" => result = AscendingSearch(edges, src, dst)

(***************************************************************************)
(* C11: at every step of a search every queued entry (vertex, rate, path)  *)
(* has a path that starts at src, ends at vertex, repeats no vertex and    *)
(* follows edges of the graph, and rate is the product of the edge rates   *)
(* along the path (1 for the seed path).                                   *)
(***************************************************************************)
C11_QueueEntriesConsistent ==
    pc = "loop" =>
        \A i \in 1..Len(queue) :
            LET e == queue[i]
            IN  /\ Len(e.path) >= 1
                /\ e.path[1] = src
                /\ e.path[Len(e.path)] = e.vertex
                /\ Cardinality(Range(e.path)) = Len(e.path)
                /\ \A k \in 1..(Len(e.path) - 1) :
                      e.path[k + 1] \in DOMAIN Neighbours(edges, e.path[k])
                /\ e.rate = PathRate(edges, e.path)

\* A path of four edges whose rate is not the rate of its last edge is queued.
C11_Witness ==
    /\ pc = "loop"
    /\ \E i \in 1..Len(queue) :
          /\ Len(queue[i].path) = 5
          /\ queue[i].rate # edges[queue[i].path[4]][queue[i].path[5]]

\* The step is an iteration of the loop that does not fail.
LoopStep == pc = "loop" /\ queue # << >> /\ pc' = "loop"

\* The neighbours of the last vertex of the entry e that are not on its path.
Unvisited(e) == DOMAIN Neighbours(edges, e.vertex) \ Range(e.path)

DstOnlyLast ==
    \A i \in 1..Len(queue) :
        \A k \in 1..(Len(queue[i].path) - 1) : queue[i].path[k] # dst

(***************************************************************************)
(* C13: a path that reaches dst is never expanded: no queued path contains *)
(* dst but in its last position, and the iteration that dequeues a path    *)
(* ending at dst pushes nothing; reaching dst does not end the search,     *)
(* which returns only when the queue is empty.                             *)
(***************************************************************************)
C13_DstNotExpanded ==
    [][/\ pc' = "loop" => DstOnlyLast'
       /\ (pc = "loop" /\ queue # << >> /\ Head(queue).vertex = dst)
            => (pc' = "loop" /\ queue' = Tail(queue))
       /\ (pc = "loop" /\ pc' = "returned") => queue = << >>]_vars

\* A candidate has been found and the search goes on with a queued path
\* of three edges.
C13_Witness ==
    /\ pc = "loop"
    /\ src # dst
    /\ best_rate # None
    /\ queue # << >>
    /\ Len(Head(queue).path) = 4

NoSelfNeighbour == \A u \in DOMAIN edges : u \notin DOMAIN edges[u]

(***************************************************************************)
(* C14: after any sequence of add_rate calls no vertex is its own          *)
(* neighbour, and a call with equal endpoints and a non-zero rate leaves   *)
(* the vertex set and the edge map as they were (the vertex is not added). *)
(***************************************************************************)
C14_SelfLoopIgnored ==
    [][/\ SelfLoopCall => UNCHANGED graphVars
       /\ NoSelfNeighbour']_vars

\* A call with equal endpoints has returned on a non-empty graph that does
\* not have the vertex of the call.
C14_Witness ==
    /\ pc = "idle"
    /\ ncalls >= 2
    /\ arg.arr[1] = arg.arr[2]
    /\ arg.rate # Zero
    /\ vertices # {}
    /\ arg.arr[1] \notin vertices

\* The simple paths from s to d of at most three edges.
ShortPaths(es, s, d) == {p \in SimplePaths(es, s, d) : Len(p) <= 4}

(***************************************************************************)
(* C15: for every graph with positive rates and every src # dst, the       *)
(* returned rate is at least the compounded rate of every simple path from *)
(* src to dst of at most three edges, whatever the iteration order.        *)
(***************************************************************************)
C15_AtLeastShortPaths ==
    (pc = "returned" /\ src # dst /\ PositiveRates(edges))
        => \A p \in ShortPaths(edges, src, dst) :
              result # None /\ Ge(result[1], PathRate(edges, p))

\* The returned rate is that of a path of three edges and exceeds that of
\* a path of two edges.
C15_Witness ==
    /\ pc = "returned"
    /\ src # dst
    /\ result # None
    /\ \E p \in ShortPaths(edges, src, dst) :
          Len(p) = 4 /\ PathRate(edges, p) = result[1]
    /\ \E p \in ShortPaths(edges, src, dst) :
          Len(p) = 3 /\ Gt(result[1], PathRate(edges, p))

\* The rate recorded for v in the visited map, if any.
Recorded(vis, v) == IF v \in DOMAIN vis THEN Some(vis[v]) ELSE None

(***************************************************************************)
(* C16: during a search the best candidate equals the rate recorded for    *)
(* dst (absent exactly when none is recorded); a path ending at dst that   *)
(* passes the visited check has a rate strictly greater than the current   *)
(* candidate and becomes the candidate, so the previous candidate is never *)
(* kept; the returned rate is the rate of a simple path from src to dst.   *)
(***************************************************************************)
C16_CandidateIsRecordedRate ==
    [][/\ pc' = "loop" => best_rate' = Recorded(visited', dst')
       /\ (LoopStep /\ Head(queue).vertex = dst
             /\ (dst \notin DOMAIN visited \/ Gt(Head(queue).rate, visited[dst])))
            => /\ best_rate # None => Gt(Head(queue).rate, best_rate[1])
               /\ best_rate' = Some(Head(queue).rate)
       /\ (pc' = "returned" /\ result' # None)
            => \E p \in SimplePaths(edges, src, dst) : PathRate(edges, p) = result'[1]]_vars

\* The candidate has rate 2 and another path ending at dst is at the front
\* of the queue.
C16_Witness ==
    /\ pc = "loop"
    /\ src # dst
    /\ best_rate = Some(Rat(2, 1))
    /\ queue # << >>
    /\ Head(queue).vertex = dst

\* The step is an add_rate call with distinct endpoints and a non-zero rate.
AcceptedCall == ncalls' = ncalls + 1 /\ arg'.arr[1] # arg'.arr[2] /\ arg'.rate # Zero

(***************************************************************************)
(* C17: after any sequence of add_rate calls the vertex set is the key set *)
(* of the edge map and every vertex has a neighbour; an accepted call adds *)
(* its two endpoints and no other step changes the vertex set, so the set  *)
(* is the set of endpoints of the accepted calls and never loses a vertex. *)
(***************************************************************************)
C17_VerticesAreEndpoints ==
    [][/\ vertices' = IF AcceptedCall
                      THEN vertices \cup {arg'.arr[1], arg'.arr[2]}
                      ELSE vertices
       /\ vertices \subseteq vertices'
       /\ vertices' = DOMAIN edges'
       /\ \A v \in vertices' : DOMAIN edges'[v] # {}]_vars

\* Three vertices are known and the last call, with its endpoints in
\* descending order, replaced a rate.
C17_Witness ==
    /\ pc = "idle"
    /\ Cardinality(vertices) = 3
    /\ replaced # None
    /\ arg.arr[1] > arg.arr[2]

\* The simple paths of the graph that start with p, p included.
RECURSIVE PathsOnward(_, _)
PathsOnward(es, p) ==
    {p} \cup UNION {PathsOnward(es, Append(p, u)) :
                      u \in DOMAIN Neighbours(es, p[Len(p)]) \ Range(p)}

\* The number of simple paths of at least one edge that start at s.
NumPathsFrom(es, s) == Cardinality(PathsOnward(es, <<s>>)) - 1

(***************************************************************************)
(* C18: no two queued entries have the same path and the count of pushed   *)
(* entries never exceeds the number of simple paths that leave src; on a   *)
(* graph of at most 5 vertices that number is at most 64, so pushed < 100  *)
(* holds at every dequeue and the debug assertion never fails.             *)
(***************************************************************************)
C18_GuardHolds ==
    /\ pc = "loop" =>
          /\ \A i, j \in 1..Len(queue) : queue[i].path = queue[j].path => i = j
          /\ pushed <= NumPathsFrom(edges, src)
    /\ Cardinality(vertices) <= 5 =>
          /\ pc # "aborted"
          /\ pc = "loop" => (NumPathsFrom(edges, src) <= 64 /\ pushed < PushLimit)

\* On a graph of five vertices a search that has pushed ten entries is
\* about to dequeue another.
C18_Witness ==
    /\ pc = "loop"
    /\ Cardinality(vertices) = 5
    /\ pushed >= 10
    /\ queue # << >>
====
